---- MODULE Spec2Model ----
(***************************************************************************)
(* A model of the interactive shell of app/main.py (class Shell).          *)
(*                                                                         *)
(* Representation.                                                         *)
(*  - A token is a string.  An input line is a sequence whose elements are *)
(*    tokens and single blanks; shlex.split keeps the tokens.  Of quoting  *)
(*    only the word '' is modelled, which shlex.split turns into the       *)
(*    empty string: the lines contain no other quote and no backslash.     *)
(*    A character outside Latin-1 is written by its code point, \uXXXX or  *)
(*    \UXXXXXXXX: the notation stands for the one character.               *)
(*  - A text (an output buffer, a file's content, one write to a stream)   *)
(*    is the sequence of the string fragments that the code concatenates;  *)
(*    the empty text is << >>.                                             *)
(*  - Sequences are indexed from 1, Python lists from 0: index i of the    *)
(*    code is index i+1 here.                                              *)
(*  - files maps the absolute path of every existing redirection target   *)
(*    to its content.                                                      *)
(*  - shell_stdout and shell_stderr hold the writes made to the shell's    *)
(*    own streams since the current cycle began, in order.                 *)
(*  - path_files is the set of regular files in the directories of PATH,   *)
(*    each by its absolute path.                                           *)
(*    It belongs to the environment, which changes it at any moment of the *)
(*    life of the shell; whether such a file can be started as a program   *)
(*    (its mode, its format) is the environment's choice at the spawn.     *)
(*  - Whether the process is privileged is fixed for its life and is the   *)
(*    environment's; privileged records it from the first statement on     *)
(*    whose outcome depends on it.                                         *)
(*  - The interpreter is CPython 3.11 with its recursion limit of 1000;    *)
(*    environ_gets and runs count the calls that the interpreter, having   *)
(*    seen enough of them, runs in fewer levels of the stack.              *)
(***************************************************************************)
EXTENDS Integers, Sequences, FiniteSets, TLC

VARIABLES
    pc,                        \* position of the process in Shell._handle
    line,                      \* the line returned by the last input()
    command,                   \* Shell.command
    arguments,                 \* Shell.arguments
    stdout_output,             \* Shell.stdout_output
    stderr_output,             \* Shell.stderr_output
    filename_to_write_stdout,  \* Shell.filename_to_write_stdout
    filename_to_write_stderr,  \* Shell.filename_to_write_stderr
    cwd,                       \* the process's working directory
    files,                     \* existing redirection target files
    path_files,                \* regular files in the directories of PATH
    shell_stdout,              \* writes to sys.stdout in this cycle
    shell_stderr,              \* writes to sys.stderr in this cycle
    exit_status,               \* status of the terminated process
    raised,                    \* the uncaught exception, "" if none
    invoked,                   \* handlers run and programs spawned by the last dispatch
    lookups,                   \* os.path.isfile calls of the dispatch being routed
    depth,                     \* nested calls of Shell._handle
    environ_gets,              \* calls of os.environ.get made so far
    runs,                      \* calls of subprocess.run that started a child
    privileged                 \* whether the process is: "yes", "no", or
                               \* "unknown" while nothing has depended on it

vars == << pc, line, command, arguments, stdout_output, stderr_output,
           filename_to_write_stdout, filename_to_write_stderr, cwd, files,
           path_files, shell_stdout, shell_stderr, exit_status, raised,
           invoked, lookups, depth, environ_gets, runs, privileged >>

(***************************************************************************)
(* Bounds of the model.                                                    *)
(***************************************************************************)
\* input lines read in one run of the specification Spec
MaxCycles == 2
\* length of the argument lists of the specification SpecRedir
MaxLen == 4

(***************************************************************************)
(* Program constants and the environment.                                  *)
(***************************************************************************)
builtins == {"exit", "echo", "type", "pwd", "cd"}

RedirectArgs == {">", "1>", "2>"}

\* attribute set by each redirection operator
FilenameVar(redirect_arg) ==
    IF redirect_arg = "2>" THEN "filename_to_write_stderr"
    ELSE "filename_to_write_stdout"

\* os.environ.get("PATH").split(":")
PATH == << "/bin1", "/bin2" >>

\* os.environ.get("HOME")
HOME == "/home"

\* the directories and the regular files outside the directories of PATH,
\* by absolute path; the redirection targets the shell creates come on top
Directories ==
    {"/", "/home", "/home/ro", "/srv", "/tmp", "/etc", "/root", "/bin1", "/bin2"}
RegularFiles == {"/etc/motd"}

\* the directories only a privileged process may enter
NoEntry == {"/root"}

\* the files only a privileged process may write, and the directories only
\* it may create files in
ReadOnly == {"/root", "/etc", "/etc/motd", "/home/ro"}

\* a wait status keeps the low eight bits of the value given to exit
ExitStatusModulus == 256

NoStatus == -1

Space == " "

(***************************************************************************)
(* Generic helpers.                                                        *)
(***************************************************************************)
SeqsUpTo(S, n) == UNION { [1..k -> S] : k \in 0..n }

RECURSIVE JoinWith(_, _)
\* sep.join(seq), as a sequence of fragments
JoinWith(seq, sep) ==
    IF Len(seq) = 0 THEN << >>
    ELSE IF Len(seq) = 1 THEN << seq[1] >>
    ELSE << seq[1], sep >> \o JoinWith(Tail(seq), sep)

\* the input line a user types for a token list: the tokens, one blank between
LineOf(tokens) == JoinWith(tokens, Space)

\* the one quoted word of the model: two single quotes, with nothing between
QuotedEmpty == "''"

\* what shlex makes of a word: the quotes are consumed
Unquote(word) == IF word = QuotedEmpty THEN "" ELSE word

\* shlex.split(commands, posix=True): the maximal runs of non-blank
\* characters, unquoted
ShlexSplit(commands) ==
    LET words == SelectSeq(commands, LAMBDA x : x # Space)
    IN [ k \in 1..Len(words) |-> Unquote(words[k]) ]

\* list.pop(i): the list without element i (i is an index of the list)
Pop(list, i) == SubSeq(list, 1, i - 1) \o SubSeq(list, i + 1, Len(list))

RECURSIVE InsertDesc(_, _)
InsertDesc(sorted, x) ==
    IF Len(sorted) = 0 THEN << x >>
    ELSE IF x >= sorted[1] THEN << x >> \o sorted
    ELSE << sorted[1] >> \o InsertDesc(Tail(sorted), x)

RECURSIVE SortReverse(_)
\* list.sort(reverse=True)
SortReverse(list) ==
    IF Len(list) = 0 THEN << >>
    ELSE InsertDesc(SortReverse(Tail(list)), list[1])

(***************************************************************************)
(* The file system.  A path is a string; the paths of the model have no    *)
(* `.` or `..` component, no doubled or trailing slash, and name no        *)
(* symbolic link.                                                          *)
(***************************************************************************)
\* str.startswith and str.endswith
StartsWith(s, prefix) ==
    Len(s) >= Len(prefix) /\ SubSeq(s, 1, Len(prefix)) = prefix
EndsWith(s, suffix) ==
    Len(s) >= Len(suffix) /\ SubSeq(s, Len(s) - Len(suffix) + 1, Len(s)) = suffix

\* os.path.join(path, filename): a filename that begins with a slash is the
\* result, else it is put after path and a slash
JoinPath(path, filename) ==
    IF StartsWith(filename, "/") THEN filename
    ELSE IF path = "" \/ EndsWith(path, "/") THEN path \o filename
    ELSE path \o "/" \o filename

RECURSIVE LastSlash(_, _)
\* the index of the last slash among the first k characters of an absolute
\* path
LastSlash(p, k) ==
    IF SubSeq(p, k, k) = "/" THEN k ELSE LastSlash(p, k - 1)

\* the directory an absolute path other than / is looked up in
Parent(p) ==
    LET k == LastSlash(p, Len(p))
    IN IF k = 1 THEN "/" ELSE SubSeq(p, 1, k - 1)

\* the regular files of the file system: those named, the files pf in the
\* directories of PATH, and the redirection targets fs
RegularPaths(pf, fs) == RegularFiles \cup DOMAIN fs \cup pf

\* the directory holds a regular file of that name, pf being the files in
\* the directories of PATH
InDirectory(pf, directory, name) == (directory \o "/" \o name) \in pf

\* what the absolute path p names, regular being the regular files
Kind(regular, p) ==
    IF p \in Directories THEN "dir"
    ELSE IF p \in regular THEN "file"
    ELSE "none"

RECURSIVE WalkError(_, _, _)
\* the exception of the walk from / to the directory p is looked up in, ""
\* when every component on the way is a directory the process may enter
WalkError(regular, may, p) ==
    IF p = "/" THEN ""
    ELSE LET d == Parent(p)
             e == WalkError(regular, may, d)
         IN IF e # "" THEN e
            ELSE IF Kind(regular, d) = "none" THEN "FileNotFoundError"
            ELSE IF Kind(regular, d) = "file" THEN "NotADirectoryError"
            ELSE IF d \in NoEntry /\ ~may THEN "PermissionError"
            ELSE ""

\* the exception open(filename, 'w') raises, "" when it opens the file;
\* path is the name made absolute
OpenError(regular, may, filename, path) ==
    LET e == WalkError(regular, may, path)
    IN
    IF filename = "" THEN "FileNotFoundError"
    ELSE IF e # "" THEN e
    ELSE IF Kind(regular, path) = "dir" THEN "IsADirectoryError"
    ELSE IF ~may /\ Kind(regular, path) = "file" /\ path \in ReadOnly
    THEN "PermissionError"
    ELSE IF ~may /\ Kind(regular, path) = "none" /\ Parent(path) \in ReadOnly
    THEN "PermissionError"
    ELSE ""

\* the exception os.chdir(arg) raises, "" when it changes the directory;
\* path is the name made absolute
ChdirError(regular, may, arg, path) ==
    LET e == WalkError(regular, may, path)
    IN
    IF arg = "" THEN "FileNotFoundError"
    ELSE IF e # "" THEN e
    ELSE IF Kind(regular, path) = "none" THEN "FileNotFoundError"
    ELSE IF Kind(regular, path) = "file" THEN "NotADirectoryError"
    ELSE IF path \in NoEntry /\ ~may THEN "PermissionError"
    ELSE ""

(***************************************************************************)
(* The call stack.  _handle ends with a call of itself, so cycle number    *)
(* depth runs with depth frames of _handle on the stack, above those of    *)
(* the module, main and __init__.  The interpreter raises RecursionError   *)
(* when a call would take the stack past its recursion limit; nothing in   *)
(* the shell catches it.  The levels a statement needs count its nested    *)
(* calls, those inside the library included; for the library they are      *)
(* those of CPython 3.11, whose interpreter specializes a function that    *)
(* has run a number of times, after which some of its calls take no level  *)
(* any more.  `room` is the number of levels free above the frame of       *)
(* _handle.                                                                *)
(***************************************************************************)
\* sys.getrecursionlimit() of the interpreter, which the shell never changes
RecursionLimit == 1000

\* the frames below the first _handle: <module>, main, Shell.__init__
OuterLevels == 3

\* std_type.write(msg) with a newline in msg, and std_type.flush()
StreamLevels == 4

\* _read_commands and _write_msg, line 51, and the flush of line 153
PromptLevels == 2 + StreamLevels

\* _read_commands, shlex.split and the token reader
SplitLevels == 7

\* open(filename, 'w') and the close of a file nothing was written to
OpenLevels == 6

\* the close of a file that was written to, at the end of the with block
WrittenCloseLevels == 7

\* _read_commands, _set_up_file_redirection and line 80
TruncateLevels == 2 + OpenLevels

\* _handle_commands, the handler, _one_arg_exactly, _write_msg and line 152
ArityLevels == 4 + StreamLevels

\* os.environ.get is specialized once it has been called this often
EnvironWarmCalls == 5

\* os.environ.get(name) after gets earlier calls
EnvironLevels(gets) == IF gets < EnvironWarmCalls THEN 5 ELSE 4

\* _handle_commands, type or run_external_program, _get_path_for_file and
\* line 184
ResolveLevels(gets) == 3 + EnvironLevels(gets)

\* _handle_commands, cd and line 271
HomeLevels(gets) == 2 + EnvironLevels(gets)

\* the start of a child is specialized once this many have been started
StartWarmRuns == 7

\* _handle_commands, run_external_program and subprocess.run up to the
\* start of the child, after started earlier runs
StartLevels(started) ==
    2 + (IF started = 0 THEN 12 ELSE IF started < StartWarmRuns THEN 11 ELSE 9)

\* the same and Popen.communicate, which reads what the child writes
CommunicateLevels == 2 + 11

\* _write_output and _write_msg, line 137
RouteStreamLevels == 2 + StreamLevels

\* a statement needing this many levels does not fit in the room
Overflows(levels, room) == levels > room

\* a counter of calls, which matters up to its cap
Counted(n, cap) == IF n < cap THEN n + 1 ELSE n

(***************************************************************************)
(* Shell._set_up_file_redirection.                                         *)
(***************************************************************************)
\* what a statement that opens a path is given: dir is the working
\* directory, pf the files in the directories of PATH, may says whether
\* the process is privileged, and room is the room on the stack
Opening(dir, pf, may, room) ==
    [ dir |-> dir, pf |-> pf, may |-> may, room |-> room ]

\* open(filename, 'w').close(): the file exists and is empty, unless the
\* open raised exc; without room for the statement the file is made and
\* RecursionError raised
Truncate(fs, filename, env) ==
    LET path == JoinPath(env.dir, filename)
        exc == OpenError(RegularPaths(env.pf, fs), env.may, filename, path)
    IN IF exc # "" THEN [ exc |-> exc, fs |-> fs ]
       ELSE [ exc |-> IF Overflows(TruncateLevels, env.room)
                      THEN "RecursionError" ELSE "",
              fs |-> (path :> << >>) @@ fs ]

\* Mutant of ScanOperator: a target once set is kept (first occurrence wins)
ScanOperatorFirstWins(args, i, st, env) ==
    LET filename == args[i + 1]
        var == FilenameVar(args[i])
        opened == Truncate(st.fs, filename, env)
    IN [ st EXCEPT
           !.fout = IF var = "filename_to_write_stdout" /\ @ = "" THEN filename ELSE @,
           !.ferr = IF var = "filename_to_write_stderr" /\ @ = "" THEN filename ELSE @,
           !.fs   = opened.fs,
           !.exc  = opened.exc,
           !.pops = IF opened.exc = "" THEN @ \o << i, i + 1 >> ELSE @ ]

\* what the scan does at an operator at index i whose operand exists, lines
\* 77-82: the target is set, then the file opened, and when the open has
\* not raised both indexes are noted
ScanOperator(args, i, st, env) ==
    LET filename == args[i + 1]
        var == FilenameVar(args[i])
        opened == Truncate(st.fs, filename, env)
    IN [ st EXCEPT
           !.fout = IF var = "filename_to_write_stdout" THEN filename ELSE @,
           !.ferr = IF var = "filename_to_write_stderr" THEN filename ELSE @,
           !.fs   = opened.fs,
           !.exc  = opened.exc,
           !.pops = IF opened.exc = "" THEN @ \o << i, i + 1 >> ELSE @ ]

\* Mutant of ScanStart: the targets of the line before are kept
ScanStartKeepingTargets(fs) ==
    [ exc |-> "", fout |-> filename_to_write_stdout,
      ferr |-> filename_to_write_stderr, fs |-> fs, pops |-> << >> ]

\* lines 66-68: both targets cleared, nothing to pop yet
ScanStart(fs) ==
    [ exc |-> "", fout |-> "", ferr |-> "", fs |-> fs, pops |-> << >> ]

RECURSIVE ScanRedirections(_, _, _, _)
\* the loop of lines 69-82 from index i on; it ends at the first statement
\* that raises, st.exc then naming the exception: IndexError out of
\* self.arguments[i+1], or what line 80 raised
ScanRedirections(args, i, st, env) ==
    IF i > Len(args) THEN st
    ELSE IF args[i] \in RedirectArgs
         THEN IF i + 1 > Len(args)
              THEN [ st EXCEPT !.exc = "IndexError" ]
              ELSE LET scanned == ScanOperator(args, i, st, env)
                   IN IF scanned.exc # "" THEN scanned
                      ELSE ScanRedirections(args, i + 1, scanned, env)
         ELSE ScanRedirections(args, i + 1, st, env)

RECURSIVE PopAll(_, _)
\* the loop of lines 86-87: pop each index in turn; ok is FALSE when a pop
\* raised IndexError (the list is then as the earlier pops left it)
PopAll(list, indexes) ==
    IF Len(indexes) = 0 THEN [ ok |-> TRUE, list |-> list ]
    ELSE IF indexes[1] > Len(list) THEN [ ok |-> FALSE, list |-> list ]
    ELSE PopAll(Pop(list, indexes[1]), Tail(indexes))

\* Mutant of ArgIndexesToPop: the indexes are popped in the order collected
ArgIndexesToPopUnsorted(pops) == pops

\* the indexes popped, in popping order
ArgIndexesToPop(pops) == SortReverse(pops)

\* the whole method on argument list args and file system fs: the new
\* argument list, both targets, the file system, and the exception that
\* ended it, "" when it returned
SetUpFileRedirection(args, fs, env) ==
    LET scan == ScanRedirections(args, 1, ScanStart(fs), env)
        popped == PopAll(args, ArgIndexesToPop(scan.pops))
    IN IF scan.exc # ""
       THEN [ exc |-> scan.exc, arguments |-> args, fout |-> scan.fout,
              ferr |-> scan.ferr, fs |-> scan.fs ]
       ELSE [ exc |-> IF popped.ok THEN "" ELSE "IndexError",
              arguments |-> popped.list, fout |-> scan.fout,
              ferr |-> scan.ferr, fs |-> scan.fs ]

(***************************************************************************)
(* Texts and numbers.  A character of a token is written as itself or, as  *)
(* Python writes it, as the escape \uXXXX or \UXXXXXXXX of its code point *)
(* in lower-case hexadecimal; the lines of the model have no other        *)
(* backslash.  A Python int has no width: it is held as its decimal        *)
(* digits, most significant first and without leading zeros, << >> being   *)
(* zero.                                                                   *)
(***************************************************************************)
Digits == << "0", "1", "2", "3", "4", "5", "6", "7", "8", "9" >>

HexDigits == "0123456789abcdef"

IsHexDigit(h) == \E i \in 1..Len(HexDigits) : SubSeq(HexDigits, i, i) = h

HexDigitValue(h) == (CHOOSE i \in 1..Len(HexDigits) : SubSeq(HexDigits, i, i) = h) - 1

RECURSIVE HexValue(_)
\* the number a string of hexadecimal digits writes
HexValue(hex) ==
    IF Len(hex) = 0 THEN 0
    ELSE 16 * HexValue(SubSeq(hex, 1, Len(hex) - 1))
           + HexDigitValue(SubSeq(hex, Len(hex), Len(hex)))

\* the length of the escape that begins at index k of the token, 0 when
\* none does
EscapeLength(token, k) ==
    LET n == IF k + 1 > Len(token) THEN 0
             ELSE IF SubSeq(token, k, k + 1) = "\\u" THEN 6
             ELSE IF SubSeq(token, k, k + 1) = "\\U" THEN 10
             ELSE 0
    IN IF n > 0 /\ k + n - 1 <= Len(token)
          /\ \A j \in (k + 2)..(k + n - 1) : IsHexDigit(SubSeq(token, j, j))
       THEN n ELSE 0

RECURSIVE CharactersFrom(_, _)
\* the characters of the token from index k on, an escape being one
CharactersFrom(token, k) ==
    IF k > Len(token) THEN << >>
    ELSE LET n == IF SubSeq(token, k, k) = "\\" THEN EscapeLength(token, k) ELSE 0
         IN IF n > 0
            THEN << SubSeq(token, k, k + n - 1) >> \o CharactersFrom(token, k + n)
            ELSE << SubSeq(token, k, k) >> \o CharactersFrom(token, k + 1)

\* the characters of a token, in order
Characters(token) ==
    IF \E k \in 1..Len(token) : SubSeq(token, k, k) = "\\"
    THEN CharactersFrom(token, 1)
    ELSE [ k \in 1..Len(token) |-> SubSeq(token, k, k) ]

\* the digits of Latin-1 beyond 0-9, by code point: SUPERSCRIPT TWO,
\* SUPERSCRIPT THREE and SUPERSCRIPT ONE
SuperscriptDigits == << << "²", 178 >>, << "³", 179 >>, << "¹", 185 >> >>

NotADigit == -1

\* ord(c) of a character that may be a digit: one written as an escape, and
\* of those written as themselves the digits of Latin-1; the other
\* characters written as themselves are no digits and give NotADigit
Ord(c) ==
    IF Len(c) > 1 THEN HexValue(SubSeq(c, 3, Len(c)))
    ELSE IF \E d \in 1..10 : Digits[d] = c
    THEN 47 + (CHOOSE d \in 1..10 : Digits[d] = c)
    ELSE IF \E s \in 1..Len(SuperscriptDigits) : SuperscriptDigits[s][1] = c
    THEN SuperscriptDigits[CHOOSE s \in 1..Len(SuperscriptDigits) :
                               SuperscriptDigits[s][1] = c][2]
    ELSE NotADigit

\* The Unicode database of the interpreter (14.0.0).  The decimal digits
\* (category Nd, str.isdecimal) come in runs of ten, 0 to 9: the code point
\* of the zero of every run.
DecimalZeros ==
    { 48, 1632, 1776, 1984, 2406, 2534, 2662, 2790, 2918, 3046, 3174, 3302,
      3430, 3558, 3664, 3792, 3872, 4160, 4240, 6112, 6160, 6470, 6608, 6784,
      6800, 6992, 7088, 7232, 7248, 42528, 43216, 43264, 43472, 43504, 43600,
      44016, 65296, 66720, 68912, 69734, 69872, 69942, 70096, 70384, 70736,
      70864, 71248, 71360, 71472, 71904, 72016, 72784, 73040, 73120, 92768,
      92864, 93008, 120782, 120792, 120802, 120812, 120822, 123200, 123632,
      125264, 130032 }

\* the other characters of numeric type Digit (superscripts, subscripts,
\* circled and parenthesized digits, ...), as ranges of code points
OtherDigitRanges ==
    { << 178, 179 >>, << 185, 185 >>, << 4969, 4977 >>, << 6618, 6618 >>,
      << 8304, 8304 >>, << 8308, 8313 >>, << 8320, 8329 >>, << 9312, 9320 >>,
      << 9332, 9340 >>, << 9352, 9360 >>, << 9450, 9450 >>, << 9461, 9469 >>,
      << 9471, 9471 >>, << 10102, 10110 >>, << 10112, 10120 >>,
      << 10122, 10130 >>, << 68160, 68163 >>, << 69216, 69224 >>,
      << 69714, 69722 >>, << 127232, 127242 >> }

\* str.isdecimal() of one character
IsDecimalChar(c) == \E z \in DecimalZeros : Ord(c) \in z..(z + 9)

\* str.isdigit() of one character
IsDigitChar(c) ==
    \/ IsDecimalChar(c)
    \/ \E r \in OtherDigitRanges : Ord(c) \in r[1]..r[2]

\* the value of a decimal digit
DigitValue(c) == Ord(c) - (CHOOSE z \in DecimalZeros : Ord(c) \in z..(z + 9))

\* str.isdigit(): non-empty and every character a digit
IsDigit(token) ==
    LET cs == Characters(token)
    IN Len(cs) > 0 /\ \A k \in 1..Len(cs) : IsDigitChar(cs[k])

\* sys.int_info.default_max_str_digits: int() refuses a longer string
MaxStrDigits == 4300

\* int(token) raises ValueError for a token of digits: one of them is no
\* decimal digit, or there are too many
IntRaises(token) ==
    LET cs == Characters(token)
    IN \/ Len(cs) > MaxStrDigits
       \/ \E k \in 1..Len(cs) : ~IsDecimalChar(cs[k])

\* a sequence of digit values without its leading zeros
Significant(ds) ==
    LET nz == { k \in 1..Len(ds) : ds[k] # 0 }
    IN IF nz = {} THEN << >>
       ELSE SubSeq(ds, CHOOSE k \in nz : \A j \in nz : k <= j, Len(ds))

\* int(token) for a token of decimal digits
IntOf(token) ==
    LET cs == Characters(token)
    IN Significant([ k \in 1..Len(cs) |-> DigitValue(cs[k]) ])

\* the largest C long, 2^63 - 1
LongMax == << 9, 2, 2, 3, 3, 7, 2, 0, 3, 6, 8, 5, 4, 7, 7, 5, 8, 0, 7 >>

\* n <= m for two ints of the same number of digits
NotAbove(n, m) ==
    LET differ == { k \in 1..Len(n) : n[k] # m[k] }
    IN differ = {} \/ LET k == CHOOSE i \in differ : \A j \in differ : i <= j
                      IN n[k] < m[k]

\* the int fits a C long
FitsLong(n) ==
    \/ Len(n) < Len(LongMax)
    \/ Len(n) = Len(LongMax) /\ NotAbove(n, LongMax)

RECURSIVE Residue(_, _)
\* n modulo m
Residue(n, m) ==
    IF Len(n) = 0 THEN 0
    ELSE (10 * Residue(SubSeq(n, 1, Len(n) - 1), m) + n[Len(n)]) % m

\* the status the parent of the process sees after sys.exit(n): the low
\* eight bits of n as a C long, and of -1 when n does not fit one
ProcessStatus(n) ==
    IF FitsLong(n) THEN Residue(n, ExitStatusModulus)
    ELSE (-1) % ExitStatusModulus

(***************************************************************************)
(* Shell._get_path_for_file.                                               *)
(***************************************************************************)
\* os.path.isfile(filepath), regular being the regular files
IsFile(regular, filepath) == filepath \in regular

\* The directories of PATH belong to the environment, which may change them
\* between any two statements of the shell.  A resolution is therefore given
\* seen, the file system as each of its os.path.isfile calls finds it:
\* seen[k] is the set of PATH files at the moment PATH[k] is examined, and
\* seen[AtSpawn] the one at the moment subprocess.run starts the child.
AtSpawn == Len(PATH) + 1

\* the directories of PATH staying as pf says
Steady(pf) == [ k \in 1..AtSpawn |-> pf ]

RECURSIVE FirstPathWith(_, _, _, _)
\* the loop over paths from index k on: 0 when no joined path is a file
FirstPathWith(seen, fs, filename, k) ==
    IF k > Len(PATH) THEN 0
    ELSE IF IsFile(RegularPaths(seen[k], fs), JoinPath(PATH[k], filename)) THEN k
    ELSE FirstPathWith(seen, fs, filename, k + 1)

\* the first n os.path.isfile calls of a resolution: the path asked for,
\* the answer, and the directories of PATH that hold a regular file of
\* that name at that moment
LookupLog(seen, fs, filename, n) ==
    [ j \in 1..n |->
        [ path    |-> JoinPath(PATH[j], filename),
          isfile  |-> IsFile(RegularPaths(seen[j], fs), JoinPath(PATH[j], filename)),
          holders |-> { i \in 1..Len(PATH) : InDirectory(seen[j], PATH[i], filename) } ] ]

\* found is FALSE where the code raises ValueError; filepath is a text
GetPathForFile(seen, fs, filename) ==
    LET k == FirstPathWith(seen, fs, filename, 1)
    IN IF k = 0
       THEN [ found |-> FALSE, filepath |-> << >>,
              lookups |-> LookupLog(seen, fs, filename, Len(PATH)) ]
       ELSE [ found |-> TRUE, filepath |-> << JoinPath(PATH[k], filename) >>,
              lookups |-> LookupLog(seen, fs, filename, k) ]

(***************************************************************************)
(* The built-in handlers and run_external_program.  Each yields the        *)
(* outcome of one dispatch, starting from Returned.                        *)
(***************************************************************************)
\* the state _handle_commands gives a handler: both buffers cleared
\* in the working directory dir, with room on the stack, gets calls of
\* os.environ.get and started children behind it
Returned(dir, room, gets, started) ==
    [ end |-> "return", status |-> NoStatus, exc |-> "",
      out |-> << >>, err |-> << >>, cwd |-> dir,
      errw |-> << >>, invoked |-> << >>, lookups |-> << >>,
      room |-> room, gets |-> gets, runs |-> started ]

\* the outcome o ended by the exception exc
Raise(o, exc) == [ o EXCEPT !.end = "raise", !.exc = exc ]

Invocation(kind, target, argv) ==
    [ kind |-> kind, target |-> target, argv |-> argv ]

\* _one_arg_exactly
OneArgExactly(args) == Len(args) = 1

ArityMessage(cmd) == << cmd, ": invalid number of arguments\n" >>

\* Mutant of ArityError: the message goes to the stderr buffer
ArityErrorBuffered(cmd, o) == [ o EXCEPT !.err = ArityMessage(cmd) ]

\* the outcome of a handler whose _one_arg_exactly call writes the
\* message, lines 164-168: it returns False, or the write raises without
\* room for it, the message being out
ArityError(cmd, o) ==
    LET written == [ o EXCEPT !.errw = Append(@, ArityMessage(cmd)) ]
    IN IF Overflows(ArityLevels, o.room) THEN Raise(written, "RecursionError")
       ELSE written

\* Mutant of ExitWithArgument: the argument is passed on as a string
ExitWithRawArgument(argument, o) ==
    [ o EXCEPT !.end = "exit", !.status = 1,
               !.errw = Append(@, << argument, "\n" >>) ]

\* lines 214-217 for the single argument of exit: a string of digits is
\* converted, which may raise, and sys.exit is given the int, or else the
\* string, which it writes to stderr before it ends the process with
\* status 1
ExitWithArgument(argument, o) ==
    IF IsDigit(argument)
    THEN IF IntRaises(argument)
         THEN Raise(o, "ValueError")
         ELSE [ o EXCEPT !.end = "exit",
                         !.status = ProcessStatus(IntOf(argument)) ]
    ELSE [ o EXCEPT !.end = "exit", !.status = 1,
                    !.errw = Append(@, << argument, "\n" >>) ]

BuiltinExit(args, o) ==
    IF Len(args) = 0 THEN [ o EXCEPT !.end = "exit", !.status = 0 ]
    ELSE IF ~OneArgExactly(args) THEN ArityError("exit", o)
    ELSE ExitWithArgument(args[1], o)

BuiltinEcho(args, o) ==
    [ o EXCEPT !.out = JoinWith(args, " ") \o << "\n" >> ]

BuiltinType(args, seen, fs, o) ==
    IF ~OneArgExactly(args) THEN ArityError("type", o)
    ELSE LET arg == args[1]
             r == GetPathForFile(seen, fs, arg)
             looked == [ o EXCEPT !.lookups = r.lookups,
                                  !.gets = Counted(@, EnvironWarmCalls) ]
         IN IF arg \in builtins
            THEN [ o EXCEPT !.out = << arg, " is a shell builtin\n" >> ]
            ELSE IF Overflows(ResolveLevels(o.gets), o.room)
            THEN Raise(o, "RecursionError")
            ELSE IF r.found
            THEN [ looked EXCEPT !.out = << arg, " is " >> \o r.filepath
                                           \o << "\n" >> ]
            ELSE [ looked EXCEPT !.err = << arg, ": not found\n" >> ]

BuiltinPwd(o) == [ o EXCEPT !.out = << o.cwd, "\n" >> ]

\* "~" in arg
ContainsTilde(arg) == \E k \in 1..Len(arg) : SubSeq(arg, k, k) = "~"

RECURSIVE ReplaceTilde(_, _)
\* arg.replace("~", home_dir_path): every tilde of arg replaced
ReplaceTilde(arg, home_dir_path) ==
    IF Len(arg) = 0 THEN ""
    ELSE (IF SubSeq(arg, 1, 1) = "~" THEN home_dir_path ELSE SubSeq(arg, 1, 1))
             \o ReplaceTilde(SubSeq(arg, 2, Len(arg)), home_dir_path)

\* os.chdir(arg) and the except clause of lines 276-277, which catches
\* FileNotFoundError alone
ChangeDirectory(arg, fs, env, o) ==
    LET path == JoinPath(o.cwd, arg)
        exc == ChdirError(RegularPaths(env.pf, fs), env.may, arg, path)
    IN IF exc = "" THEN [ o EXCEPT !.cwd = path ]
       ELSE IF exc = "FileNotFoundError"
       THEN [ o EXCEPT !.err = << "cd: ", arg, ": No such file or directory\n" >> ]
       ELSE Raise(o, exc)

BuiltinCd(args, fs, env, o) ==
    IF ~OneArgExactly(args) THEN ArityError("cd", o)
    ELSE IF ContainsTilde(args[1])
    THEN IF Overflows(HomeLevels(o.gets), o.room)
         THEN Raise(o, "RecursionError")
         ELSE ChangeDirectory(ReplaceTilde(args[1], HOME), fs, env,
                              [ o EXCEPT !.gets = Counted(@, EnvironWarmCalls) ])
    ELSE ChangeDirectory(args[1], fs, env, o)

\* getattr(self, self.command)()
RunBuiltin(cmd, args, seen, fs, may, o) ==
    LET called == [ o EXCEPT !.invoked = Append(@, Invocation("builtin", << cmd >>, args)) ]
    IN CASE cmd = "exit" -> BuiltinExit(args, called)
         [] cmd = "echo" -> BuiltinEcho(args, called)
         [] cmd = "type" -> BuiltinType(args, seen, fs, called)
         [] cmd = "pwd"  -> BuiltinPwd(called)
         [] cmd = "cd"   -> BuiltinCd(args, fs, Opening(o.cwd, seen[1], may, o.room),
                                      called)

\* the exceptions subprocess.run raises when the file the resolution
\* returned cannot be started.  os.path.isfile looks neither at the mode
\* nor at the content of the file.
StartErrors == { "PermissionError", "OSError", "FileNotFoundError" }

\* how subprocess.run ends: "ok" when the child was started and waited for
\* and what it wrote is text, UnicodeDecodeError when what it wrote is not
\* (text=True), else the exception of the start
SpawnResults == { "ok", "UnicodeDecodeError" } \cup StartErrors

\* the exceptions `except ValueError` catches
ValueErrors == { "ValueError", "UnicodeDecodeError" }

\* run_external_program from the moment the child has exited: the decoding
\* of what it wrote, and lines 297-298
ChildEnd(child_out, child_err, spawned, o) ==
    IF spawned = "UnicodeDecodeError"
    THEN Raise(o, "UnicodeDecodeError")
    ELSE [ o EXCEPT !.err = child_err, !.out = child_out ]

\* run_external_program.  A name that is not found raises ValueError;
\* subprocess.run raises RecursionError without room to start the child; a
\* file that is gone when the child is to be started gives
\* FileNotFoundError; else the run ends as spawned says, and a child whose
\* output is text has written child_out and child_err.
RunExternalProgram(cmd, args, seen, fs, child_out, child_err, spawned, o) ==
    LET r == GetPathForFile(seen, fs, cmd)
        looked == [ o EXCEPT !.lookups = r.lookups,
                             !.gets = Counted(@, EnvironWarmCalls) ]
        tried == [ looked EXCEPT
                     !.invoked = Append(@, Invocation("spawn", r.filepath, args)) ]
    IN IF Overflows(ResolveLevels(o.gets), o.room)
       THEN Raise(o, "RecursionError")
       ELSE IF ~r.found
       THEN Raise(looked, "ValueError")
       ELSE IF Overflows(StartLevels(o.runs), o.room)
       THEN Raise(tried, "RecursionError")
       ELSE IF ~IsFile(RegularPaths(seen[AtSpawn], fs), r.filepath[1])
       THEN Raise(tried, "FileNotFoundError")
       ELSE IF spawned \in StartErrors
       THEN Raise(tried, spawned)
       ELSE ChildEnd(child_out, child_err, spawned,
                     [ tried EXCEPT !.runs = Counted(@, StartWarmRuns) ])

\* the except clause of _handle_commands, lines 113-117: a ValueError out
\* of run_external_program, whatever raised it, becomes the message
ExceptValueError(cmd, o) ==
    IF o.end = "raise" /\ o.exc \in ValueErrors
    THEN [ o EXCEPT !.end = "return", !.exc = "",
                    !.err = << cmd, ": command not found\n" >> ]
    ELSE o

\* Shell._handle_commands, from the state start that lines 104-105 leave
HandleCommands(cmd, args, start, seen, fs, may, child_out, child_err, spawned) ==
    IF cmd \in builtins
    THEN RunBuiltin(cmd, args, seen, fs, may, start)
    ELSE ExceptValueError(cmd,
             RunExternalProgram(cmd, args, seen, fs, child_out, child_err,
                                spawned, start))

(***************************************************************************)
(* Shell._write_output.                                                    *)
(***************************************************************************)
\* what the loop starts with: the file system and the two streams of the
\* shell, no exception raised
Unrouted(fs, sout, serr) ==
    [ exc |-> "", fs |-> fs, stdout |-> sout, stderr |-> serr ]

\* one round of the loop, lines 131-142, for the content output: nothing
\* for an empty one; without a file name the write to the stream of the
\* shell; else the file of that name, looked up in the working directory,
\* is opened, written and closed.  exc names the exception that ends the
\* method: that of the open, or RecursionError where the room on the stack
\* is too small (then the stream has the content, and the file is empty
\* when the open itself did not fit, written when the close did not).
RouteStream(filename, output, stream, env, r) ==
    LET path == JoinPath(env.dir, filename)
        exc == OpenError(RegularPaths(env.pf, r.fs), env.may, filename, path)
    IN
    IF output = << >> THEN r
    ELSE IF filename = ""
    THEN [ r EXCEPT ![stream] = Append(@, output),
                    !.exc = IF Overflows(RouteStreamLevels, env.room)
                            THEN "RecursionError" ELSE "" ]
    ELSE IF exc # "" THEN [ r EXCEPT !.exc = exc ]
    ELSE IF Overflows(1 + OpenLevels, env.room)
    THEN [ r EXCEPT !.exc = "RecursionError", !.fs = (path :> << >>) @@ @ ]
    ELSE [ r EXCEPT !.exc = IF Overflows(1 + WrittenCloseLevels, env.room)
                            THEN "RecursionError" ELSE "",
                    !.fs = (path :> output) @@ @ ]

\* Mutant of WriteOutput: stderr is routed first, then stdout
WriteOutputStderrFirst(fout, ferr, out, err, env, fs, sout, serr) ==
    LET first == RouteStream(ferr, err, "stderr", env, Unrouted(fs, sout, serr))
    IN IF first.exc # "" THEN first
       ELSE RouteStream(fout, out, "stdout", env, first)

\* stdout first, then stderr, unless the round of stdout raised
WriteOutput(fout, ferr, out, err, env, fs, sout, serr) ==
    LET first == RouteStream(fout, out, "stdout", env, Unrouted(fs, sout, serr))
    IN IF first.exc # "" THEN first
       ELSE RouteStream(ferr, err, "stderr", env, first)

(***************************************************************************)
(* The inputs of the model.                                                *)
(***************************************************************************)
CommandNames == builtins \cup {"prog", "nosuch"}

\* argument lists without redirections, per command
RECURSIVE Repeated(_, _)
\* the text n times over
Repeated(text, n) ==
    IF n = 0 THEN ""
    ELSE LET half == Repeated(text, n \div 2)
         IN IF n % 2 = 0 THEN half \o half ELSE half \o half \o text

\* arguments of exit that are digits to str.isdigit: a superscript, which
\* is no decimal digit, an Arabic-Indic three, the numeral of 2^63, and a
\* numeral longer than int() accepts
DigitArguments ==
    { << "²" >>, << "\\u0663" >>, << "9223372036854775808" >>,
      << Repeated("1", MaxStrDigits + 1) >> }

PlainArguments(cmd) ==
    CASE cmd = "exit" -> { << >>, << "0" >>, << "7" >>, << "256" >>, << "abc" >>,
                           << "1", "2" >> }
      [] cmd = "echo" -> { << "a", "b" >> }
      [] cmd = "type" -> { << >>, << "echo" >>, << "prog" >>, << "nosuch" >>,
                           << "/etc/motd" >> }
      [] cmd = "pwd"  -> { << >> }
      [] cmd = "cd"   -> { << >>, << "/srv" >>, << "/nodir" >>, << "~" >>, << "~/x" >>,
                           << "/etc/motd" >>, << "/etc/motd/x" >>, << "/root" >> }
      [] cmd = "prog" -> { << "a" >> }
      [] OTHER        -> { << >> }

TargetF == "/tmp/f"
TargetG == "/tmp/g"

\* redirection tokens added to an argument list; the last one is an operator
\* without a file name
Redirections ==
    { << >>,
      << ">", TargetF >>, << "2>", TargetF >>,
      << ">", TargetF, "2>", TargetF >>,
      << "1>", TargetF, "2>", TargetG >>,
      << "2>" >> }

\* the argument lists that are also given with redirections
RedirectedArguments(cmd) ==
    CASE cmd = "exit" -> { << "1", "2" >> }
      [] cmd = "type" -> { << >>, << "prog" >> }
      [] cmd = "cd"   -> { << >>, << "/nodir" >> }
      [] OTHER        -> PlainArguments(cmd)

\* the redirections given to a command: all of them to the commands that
\* write to stdout whatever their arguments, one target to the others
RedirectionsOf(cmd) ==
    IF cmd \in { "echo", "prog" } THEN Redirections
    ELSE Redirections \ { << "1>", TargetF, "2>", TargetG >> }

\* a command name, its arguments, then the redirection tokens
TokenLists ==
    UNION { { << c >> \o a : a \in PlainArguments(c) }
              \cup { << c >> \o a \o r : a \in RedirectedArguments(c),
                                         r \in RedirectionsOf(c) }
            : c \in CommandNames }

EmptyLine == << >>
BlankLine == << Space >>

\* lines with the empty string as a word
QuotedEmptyLines ==
    { LineOf(<< QuotedEmpty >>), LineOf(<< QuotedEmpty, ">", TargetF >>),
      LineOf(<< "type", QuotedEmpty >>) }

\* lines with a target that cannot be opened, or that only a privileged
\* process can open: in a directory that does not exist, a directory, the
\* same after a target that can be opened, and a file that is read-only
UnopenableTargetLines ==
    { LineOf(<< "nosuch", ">", "/nodir/out" >>),
      LineOf(<< "echo", "a", "b", ">", "/srv" >>),
      LineOf(<< "echo", "a", "b", "2>", TargetF, ">", "/nodir/out" >>),
      LineOf(<< "exit", ">", "/etc/motd" >>) }

Lines ==
    { EmptyLine, BlankLine } \cup { LineOf(t) : t \in TokenLists }
        \cup QuotedEmptyLines \cup UnopenableTargetLines

\* files that come and go in the directories of PATH
PathEntries == { "/bin1/prog", "/bin2/prog" }

\* a file in PATH named as a built-in, present throughout
FixedPathEntries == { "/bin2/echo" }

\* the states the directories of PATH can be in
FsStates == { FixedPathEntries \cup s : s \in SUBSET PathEntries }

\* the resolution of the name examines PATH[k]: no directory before it
\* held the file when it was examined
Examines(seen, fs, name, k) ==
    \A j \in 1..(k - 1) :
        ~IsFile(RegularPaths(seen[j], fs), JoinPath(PATH[j], name))

\* what the looks of one dispatch at the directories of PATH can find, look
\* by look, when the directories are as pf says at the first and the
\* dispatch resolves the name, to start a child when spawns says so; a
\* look that does not happen stands for the one before it
Snapshots(pf, fs, name, spawns) ==
    { seen \in [ 1..AtSpawn -> FsStates ] :
        /\ seen[1] = pf
        /\ \A k \in 2..Len(PATH) :
              Examines(seen, fs, name, k) \/ seen[k] = seen[k - 1]
        /\ \/ spawns /\ FirstPathWith(seen, fs, name, 1) # 0
           \/ seen[AtSpawn] = seen[Len(PATH)] }

\* what a child process may write to either pipe
ChildStdout == { << >>, << "child out\n" >> }
ChildStderr == { << >>, << "child err\n" >> }

\* the files a child process may write while it runs: none, or the file a
\* redirection of the shell may name as well
ChildWrites == { << >>, TargetF :> << "child file\n" >> }

\* how the run of a child that was started may end: what it wrote, when
\* that is text, or the exception of the decoding
ChildEnds ==
    { [ spawned |-> "ok", out |-> child_out, err |-> child_err ] :
        child_out \in ChildStdout, child_err \in ChildStderr }
    \cup { [ spawned |-> s, out |-> << >>, err |-> << >> ] :
             s \in SpawnResults \ ({ "ok" } \cup StartErrors) }

\* the privileges the process can have, given what is known of it
Privileges(known) == IF known = "unknown" THEN BOOLEAN ELSE { known = "yes" }

\* what is known of the privilege once a statement has run as may says:
\* what was known, unless the statement raises PermissionError in an
\* unprivileged process, exc being what it raises there
Shown(known, may, exc) ==
    IF exc # "PermissionError" THEN known
    ELSE IF may THEN "yes" ELSE "no"

\* the command resolves a name in PATH: run_external_program, line 288, and
\* type, line 245
ReadsPath(cmd, args) ==
    \/ cmd \notin builtins
    \/ cmd = "type" /\ Len(args) = 1 /\ args[1] \notin builtins

\* subprocess.run was called in the dispatch with outcome o
ChildTried(o) == \E k \in 1..Len(o.invoked) : o.invoked[k].kind = "spawn"

\* the last look of the dispatch at the directories of PATH: the start of
\* the child, else the last os.path.isfile call, else none and 1 stands for
\* the directories as they are
LastLook(o) ==
    IF ChildTried(o) THEN AtSpawn
    ELSE IF Len(o.lookups) > 0 THEN Len(o.lookups) ELSE 1

\* the child of the dispatch with outcome o was started
ChildStarted(o) == o.end = "return" /\ ChildTried(o)

\* the outcomes _handle_commands can have in a state of the shell up to
\* where it ends or waits for a child it has started (end is "wait", both
\* buffers cleared), over what the environment does meanwhile: what each
\* look at the directories of PATH after the first finds, and how the
\* start of the child ends; each with the directories as the last look
\* found them.  A command that resolves no name has one outcome, but cd,
\* the one command to open a path, one for either privilege the process
\* can have, known says which.
Outcomes(cmd, args, start, pf, fs, known) ==
    LET seens == IF ReadsPath(cmd, args)
                 THEN Snapshots(pf, fs, IF cmd = "type" THEN args[1] ELSE cmd,
                                cmd \notin builtins)
                 ELSE { Steady(pf) }
        mays == IF cmd = "cd" THEN Privileges(known) ELSE { TRUE }
        Run(seen, may, r) ==
            HandleCommands(cmd, args, start, seen, fs, may, << >>, << >>, r)
        Outcome(seen, may, o) ==
            [ o |-> IF ChildStarted(o) THEN [ o EXCEPT !.end = "wait" ] ELSE o,
              path_files |-> seen[LastLook(o)],
              privileged |-> IF cmd = "cd"
                             THEN Shown(known, may, Run(seen, FALSE, "ok").exc)
                             ELSE known ]
        Ends(seen, may, started) ==
            { Outcome(seen, may, started) }
            \cup (IF ChildStarted(started)
                  THEN { Outcome(seen, may, Run(seen, may, r)) : r \in StartErrors }
                  ELSE {})
    IN UNION { Ends(seen, may, Run(seen, may, "ok")) :
               seen \in seens, may \in mays }

(***************************************************************************)
(* The state machine.                                                      *)
(***************************************************************************)
Init ==
    /\ pc = "prompt"
    /\ line = EmptyLine
    /\ command = ""
    /\ arguments = << >>
    /\ stdout_output = << >>
    /\ stderr_output = << >>
    /\ filename_to_write_stdout = ""
    /\ filename_to_write_stderr = ""
    /\ cwd = HOME
    /\ files = << >>
    /\ path_files \in FsStates
    /\ shell_stdout = << >>
    /\ shell_stderr = << >>
    /\ exit_status = NoStatus
    /\ raised = ""
    /\ invoked = << >>
    /\ lookups = << >>
    /\ depth = 1
    /\ environ_gets = 0
    /\ runs = 0
    /\ privileged = "unknown"

\* the levels free above the frame of _handle in cycle number depth
Room == RecursionLimit - OuterLevels - depth

\* a stage needing this many levels does not fit on the stack
StackOverflow(levels) == Overflows(levels, Room)

\* the state lines 104-105 of _handle_commands leave, in this state of the
\* shell
Started == Returned(cwd, Room, environ_gets, runs)

\* _read_commands, line 51, in cycle number depth: the prompt is written,
\* and the flush of line 153 raises when the stack is exhausted
PromptAndFlush ==
    /\ pc = "prompt"
    /\ shell_stdout' = << << "$ " >> >>
    /\ shell_stderr' = << >>
    /\ pc' = IF StackOverflow(PromptLevels) THEN "crashed" ELSE "read"
    /\ raised' = IF StackOverflow(PromptLevels) THEN "RecursionError" ELSE raised
    /\ UNCHANGED << line, command, arguments, stdout_output, stderr_output,
                    filename_to_write_stdout, filename_to_write_stderr, cwd,
                    files, path_files, exit_status, invoked, lookups, depth,
                    environ_gets, runs, privileged >>

\* the prompt of one of the first MaxCycles cycles
WritePrompt ==
    /\ depth <= MaxCycles
    /\ PromptAndFlush

\* Mutant of AfterRead: the output is routed before the command is dispatched
AfterReadRoutingFirst(cmd) == IF cmd # "" THEN "route" ELSE "prompt"

\* what _handle does once _read_commands has returned: lines 36-39
AfterRead(cmd) == IF cmd # "" THEN "dispatch" ELSE "prompt"

\* what _set_up_file_redirection can do in a state of the shell, for
\* either privilege the process can have
Parses(args, fs, dir, pf, room, known) ==
    UNION { IF unprivileged.exc # "PermissionError"
            THEN { [ r |-> unprivileged, privileged |-> known ] }
            ELSE { [ r |-> IF may
                           THEN SetUpFileRedirection(args, fs,
                                    Opening(dir, pf, TRUE, room))
                           ELSE unprivileged,
                     privileged |-> Shown(known, may, unprivileged.exc) ] :
                   may \in Privileges(known) } :
            unprivileged \in
              { SetUpFileRedirection(args, fs, Opening(dir, pf, FALSE, room)) } }

\* _read_commands from input() on, for the line l, and the test of line 36
ReadCommands(l) ==
    /\ pc = "read"
    /\ line' = l
    /\ IF l = EmptyLine
       THEN /\ pc' = AfterRead(command)
            /\ depth' = IF command # "" THEN depth ELSE depth + 1
            /\ UNCHANGED << command, arguments, filename_to_write_stdout,
                            filename_to_write_stderr, files, raised,
                            privileged >>
       ELSE LET inputs == ShlexSplit(l) IN
            IF StackOverflow(SplitLevels)
            THEN /\ pc' = "crashed"
                 /\ raised' = "RecursionError"
                 /\ UNCHANGED << command, arguments, filename_to_write_stdout,
                                 filename_to_write_stderr, files, depth,
                                 privileged >>
            ELSE IF Len(inputs) = 0
            THEN /\ pc' = "crashed"
                 /\ raised' = "IndexError"
                 /\ UNCHANGED << command, arguments, filename_to_write_stdout,
                                 filename_to_write_stderr, files, depth,
                                 privileged >>
            ELSE \E p \in Parses(Tail(inputs), files, cwd, path_files, Room,
                                 privileged) :
                 LET r == p.r IN
                 /\ command' = inputs[1]
                 /\ arguments' = r.arguments
                 /\ filename_to_write_stdout' = r.fout
                 /\ filename_to_write_stderr' = r.ferr
                 /\ files' = r.fs
                 /\ privileged' = p.privileged
                 /\ pc' = IF r.exc = "" THEN AfterRead(inputs[1]) ELSE "crashed"
                 /\ raised' = r.exc
                 /\ depth' = IF r.exc = "" /\ inputs[1] = "" THEN depth + 1 ELSE depth
    /\ UNCHANGED << stdout_output, stderr_output, cwd, path_files,
                    shell_stdout, shell_stderr, exit_status, invoked, lookups,
                    environ_gets, runs >>

\* the lines a fresh shell is given as well: exit with the arguments that
\* are digits, and a cd into a directory only a privileged process can
\* write to, with a target named relative to the working directory
FirstLines ==
    { LineOf(<< "exit" >> \o a) : a \in DigitArguments }
    \cup { LineOf(<< "cd", "ro", "2>", "a" >>) }

ReadLine ==
    \E l \in Lines \cup (IF depth = 1 THEN FirstLines ELSE {}) : ReadCommands(l)

\* _handle_commands, line 37, up to where it ends or waits for a child.
\* While it resolves a name the environment may change the directories of
\* PATH: each look after the first finds them as seen says, and they are
\* left as the last look found them.  A command that resolves no name is
\* over in a few statements that do not look at PATH: a change during it
\* is one before or after it.
Dispatch ==
    /\ pc = "dispatch"
    /\ \E x \in Outcomes(command, arguments, Started, path_files, files,
                          privileged) :
         LET o == x.o IN
         /\ path_files' = x.path_files
         /\ privileged' = x.privileged
         /\ environ_gets' = o.gets
         /\ runs' = o.runs
         /\ stdout_output' = o.out
         /\ stderr_output' = o.err
         /\ cwd' = o.cwd
         /\ shell_stderr' = shell_stderr \o o.errw
         /\ invoked' = o.invoked
         /\ lookups' = o.lookups
         /\ exit_status' = o.status
         /\ raised' = o.exc
         /\ pc' = CASE o.end = "exit"  -> "exited"
                    [] o.end = "raise" -> "crashed"
                    [] o.end = "wait"  -> "wait"
                    [] OTHER           -> "route"
    /\ UNCHANGED << line, command, arguments, filename_to_write_stdout,
                    filename_to_write_stderr, files, shell_stdout, depth >>

\* subprocess.run returns, lines 291-298, and the except clause of lines
\* 113-117: the child has exited, having written to its pipes and maybe a
\* file.  Without room for Popen.communicate the call raises
\* RecursionError instead, whatever the child has done by then.
ChildExit ==
    /\ pc = "wait"
    /\ \E r \in ChildEnds, w \in ChildWrites :
         LET waiting == [ Started EXCEPT !.invoked = invoked,
                                         !.lookups = lookups ]
             o == IF StackOverflow(CommunicateLevels)
                  THEN Raise(waiting, "RecursionError")
                  ELSE ExceptValueError(command,
                           ChildEnd(r.out, r.err, r.spawned, waiting))
         IN /\ stdout_output' = o.out
            /\ stderr_output' = o.err
            /\ raised' = o.exc
            /\ pc' = IF o.end = "raise" THEN "crashed" ELSE "route"
            /\ files' = w @@ files
    /\ UNCHANGED << line, command, arguments, filename_to_write_stdout,
                    filename_to_write_stderr, cwd, path_files, shell_stdout,
                    shell_stderr, exit_status, invoked, lookups, depth,
                    environ_gets, runs, privileged >>

\* _write_output in this state of the shell, in a process privileged as
\* may says
Routing(may) ==
    WriteOutput(filename_to_write_stdout, filename_to_write_stderr,
                stdout_output, stderr_output,
                Opening(cwd, path_files, may, Room), files,
                shell_stdout, shell_stderr)

\* what it can do, for either privilege the process can have
Routings ==
    UNION { IF unprivileged.exc # "PermissionError"
            THEN { [ r |-> unprivileged, privileged |-> privileged ] }
            ELSE { [ r |-> IF may THEN Routing(TRUE) ELSE unprivileged,
                     privileged |-> Shown(privileged, may, unprivileged.exc) ] :
                   may \in Privileges(privileged) } :
            unprivileged \in { Routing(FALSE) } }

\* _write_output, line 38, and the self-call of line 39, which an
\* exception of _write_output leaves out
Route ==
    /\ pc = "route"
    /\ \E x \in Routings :
         LET r == x.r IN
         /\ privileged' = x.privileged
         /\ files' = r.fs
         /\ shell_stdout' = r.stdout
         /\ shell_stderr' = r.stderr
         /\ raised' = r.exc
         /\ pc' = IF r.exc = "" THEN "prompt" ELSE "crashed"
         /\ lookups' = IF r.exc = "" THEN << >> ELSE lookups
         /\ depth' = IF r.exc = "" THEN depth + 1 ELSE depth
    /\ UNCHANGED << line, command, arguments, stdout_output, stderr_output,
                    filename_to_write_stdout, filename_to_write_stderr, cwd,
                    path_files, exit_status, invoked, environ_gets, runs >>

\* the environment adds or removes a file in a directory of PATH, at any
\* moment of the life of the shell
FsChange ==
    /\ pc \notin { "exited", "crashed" }
    /\ \E e \in PathEntries :
         path_files' = IF e \in path_files THEN path_files \ { e }
                       ELSE path_files \cup { e }
    /\ UNCHANGED << pc, line, command, arguments, stdout_output, stderr_output,
                    filename_to_write_stdout, filename_to_write_stderr, cwd,
                    files, shell_stdout, shell_stderr, exit_status, raised,
                    invoked, lookups, depth, environ_gets, runs, privileged >>

Next == WritePrompt \/ ReadLine \/ Dispatch \/ ChildExit \/ Route \/ FsChange

Spec == Init /\ [][Next]_vars

(***************************************************************************)
(* A long session: any number of lines, each empty or `pwd`, until the     *)
(* stack is exhausted; in the last cycles, where the room on the stack is  *)
(* that of a statement of the shell, other lines as well: from cycle       *)
(* RunCycle on an external program, which once run seven times is started  *)
(* in fewer levels, and from cycle DeepCycle on the built-ins and a        *)
(* redirection.                                                            *)
(***************************************************************************)
RunCycle == 978

DeepCycle == 988

CalmLines == { EmptyLine, LineOf(<< "pwd" >>) }

RunLines == { LineOf(<< "prog", "a" >>) }

\* lines whose handling nests deeper than that of `pwd`
DeepLines ==
    { LineOf(<< "cd" >>), LineOf(<< "cd", "~" >>), LineOf(<< "type", "prog" >>),
      LineOf(<< "echo", "a", "b", ">", TargetF >>) }

LoopLines ==
    CalmLines \cup (IF depth < RunCycle THEN {} ELSE RunLines)
              \cup (IF depth < DeepCycle THEN {} ELSE DeepLines)

ReadLoopLine == \E l \in LoopLines : ReadCommands(l)

NextLoop == PromptAndFlush \/ ReadLoopLine \/ Dispatch \/ ChildExit \/ Route

SpecLoop == Init /\ [][NextLoop]_vars

(***************************************************************************)
(* Redirection extraction on its own: one line `echo <arguments>` with     *)
(* every argument list over RedirTokens up to MaxLen, read either by a     *)
(* fresh shell or by one that has run `echo a b > /tmp/f 2> /tmp/f`.       *)
(***************************************************************************)
RedirTokens == RedirectArgs \cup { "a", TargetG }

RedirLines == { LineOf(<< "echo" >> \o a) : a \in SeqsUpTo(RedirTokens, MaxLen) }

EarlierLine == LineOf(<< "echo", "a", "b", ">", TargetF, "2>", TargetF >>)

\* the state at the second prompt, EarlierLine having been the first line
AfterEarlierLine ==
    /\ pc = "prompt"
    /\ line = EarlierLine
    /\ command = "echo"
    /\ arguments = << "a", "b" >>
    /\ stdout_output = << "a", " ", "b", "\n" >>
    /\ stderr_output = << >>
    /\ filename_to_write_stdout = TargetF
    /\ filename_to_write_stderr = TargetF
    /\ cwd = HOME
    /\ files = (TargetF :> << "a", " ", "b", "\n" >>)
    /\ path_files = FixedPathEntries
    /\ shell_stdout = << << "$ " >> >>
    /\ shell_stderr = << >>
    /\ exit_status = NoStatus
    /\ raised = ""
    /\ invoked = << Invocation("builtin", << "echo" >>, << "a", "b" >>) >>
    /\ lookups = << >>
    /\ depth = 2
    /\ environ_gets = 0
    /\ runs = 0
    /\ privileged = "unknown"

InitRedir == Init \/ AfterEarlierLine

ReadRedirLine == \E l \in RedirLines : ReadCommands(l)

NextRedir == WritePrompt \/ ReadRedirLine

SpecRedir == InitRedir /\ [][NextRedir]_vars

(***************************************************************************)
(* Notions the properties below are stated with.                           *)
(***************************************************************************)
\* the argument tokens of the line last read, as typed
RawArguments ==
    IF Len(ShlexSplit(line)) = 0 THEN << >> ELSE Tail(ShlexSplit(line))

\* a line was read and parsed, and its command is about to be dispatched
ParsedForDispatch == pc = "dispatch" /\ line # EmptyLine

\* the argument list without the redirection tokens: every position that
\* holds an operator, or directly follows one, removed
RECURSIVE CleanFrom(_, _)
CleanFrom(args, i) ==
    IF i > Len(args) THEN << >>
    ELSE IF args[i] \in RedirectArgs \/ (i > 1 /\ args[i - 1] \in RedirectArgs)
         THEN CleanFrom(args, i + 1)
         ELSE << args[i] >> \o CleanFrom(args, i + 1)

CleanArguments(args) == CleanFrom(args, 1)

RECURSIVE IsSubsequence(_, _)
\* s is t with some elements left out
IsSubsequence(s, t) ==
    IF Len(s) = 0 THEN TRUE
    ELSE IF Len(t) = 0 THEN FALSE
    ELSE IF s[1] = t[1] THEN IsSubsequence(Tail(s), Tail(t))
    ELSE IsSubsequence(s, Tail(t))

\* the positions of args holding an operator of ops that has an operand
OperatorPositions(args, ops) ==
    { i \in 1..(Len(args) - 1) : args[i] \in ops }

\* the file names that follow a redirection operator in args
NamedTargets(args) ==
    { args[i + 1] : i \in OperatorPositions(args, RedirectArgs) }

\* the operand of the last operator of ops in args, "" if there is none
LastOperand(args, ops) ==
    LET at == OperatorPositions(args, ops)
    IN IF at = {} THEN ""
       ELSE args[(CHOOSE i \in at : \A j \in at : j <= i) + 1]

\* _write_output has run for a command and the next prompt is due
Routed == pc = "prompt" /\ depth > 1 /\ command # ""

\* the shell has ended in _read_commands: out of stack, with the IndexError
\* of a line of blanks or of the extraction, or with the exception of the
\* open of a target, the operator of which is then still an argument
RaisedReading ==
    /\ pc = "crashed"
    /\ \/ raised \in { "IndexError", "RecursionError" }
       \/ \E k \in 1..Len(arguments) : arguments[k] \in RedirectArgs

\* the dispatcher has run for the current command
Dispatched ==
    \/ pc \in { "route", "exited" }
    \/ pc = "crashed" /\ ~RaisedReading

CountInvoked(kind) ==
    Cardinality({ k \in 1..Len(invoked) : invoked[k].kind = kind })

NotFoundMessage == << command, ": command not found\n" >>

\* the current command is a built-in given an argument count it rejects
ArityRejected ==
    \/ command \in { "type", "cd" } /\ Len(arguments) # 1
    \/ command = "exit" /\ Len(arguments) >= 2

\* the resolution of the last dispatch found a file: its last
\* os.path.isfile call answered True
Resolved ==
    /\ Len(lookups) > 0
    /\ lookups[Len(lookups)].isfile

\* the path it returned, as a text
ResolvedPath == << lookups[Len(lookups)].path >>

\* the step is one of the shell, not one of its environment
ShellStep == pc' # pc

\* the numbers written by the numerals of the model
Numerals == { "0", "7", "256" }
NumeralValue(token) ==
    CASE token = "0" -> 0
      [] token = "7" -> 7
      [] token = "256" -> 256

Prompt == << "$ " >>

\* the last write of a stream is text
LastWrite(stream, text) == Len(stream) > 0 /\ stream[Len(stream)] = text

\* text was not written to the stream
NotWritten(stream, text) == \A k \in 1..Len(stream) : stream[k] # text

\* the file a target names, looked up in the working directory
TargetPath(filename) == JoinPath(cwd, filename)

(***************************************************************************)
(* Properties.                                                             *)
(***************************************************************************)

\* C1: reading an empty input line is a no-op.  After an empty line the shell
\* is back at the prompt (or waiting for the next line): it never reaches the
\* dispatcher or the output router, where handlers and programs are run, the
\* streams are written and the working directory and files are changed.
C1_EmptyLineIsNoOp ==
    line = EmptyLine => pc \in { "prompt", "read" }

\* C2: the process has terminated only if the line just processed was an
\* `exit` command that passed its argument-count check.
C2_OnlyExitTerminates ==
    pc \in { "exited", "crashed" } =>
        /\ pc = "exited"
        /\ Len(ShlexSplit(line)) > 0
        /\ ShlexSplit(line)[1] = "exit"
        /\ Len(arguments) <= 1

\* C3: the argument list handed to the dispatcher is the typed list with
\* exactly the operator+filename pairs removed, every other token kept in
\* order.
C3_ExactlyPairsRemoved ==
    ParsedForDispatch => arguments = CleanArguments(RawArguments)

\* C4: when extraction has completed and the command is dispatched, the
\* argument list holds no redirection operator, and every token of it comes,
\* in order, from a position of the typed list that is neither an operator
\* nor the operand of one.
C4_NoRedirectionTokensLeft ==
    ParsedForDispatch =>
        /\ \A k \in 1..Len(arguments) : arguments[k] \notin RedirectArgs
        /\ IsSubsequence(arguments, CleanArguments(RawArguments))

C4_Witness ==
    /\ ParsedForDispatch
    /\ RawArguments = << "a", ">", TargetG, "a" >>
    /\ arguments = << "a", "a" >>

\* C5: every redirection target named on the line read exists from the
\* parsing of the line on, also when the command is not found, and is empty
\* when the command is dispatched.
C5_TargetsTruncatedBeforeDispatch ==
    \A t \in NamedTargets(RawArguments) :
        /\ JoinPath(cwd, t) \in DOMAIN files
        /\ ParsedForDispatch => files[JoinPath(cwd, t)] = << >>

\* C6: after extraction the stdout target is the operand of the last `>` or
\* `1>` of the line and the stderr target the operand of the last `2>`, each
\* "" when the line has no such operator.
C6_LastOccurrenceWins ==
    ParsedForDispatch =>
        /\ filename_to_write_stdout = LastOperand(RawArguments, { ">", "1>" })
        /\ filename_to_write_stderr = LastOperand(RawArguments, { "2>" })

C6_Witness ==
    /\ ParsedForDispatch
    /\ depth = 2
    /\ RawArguments = << ">", "a", "1>", TargetG >>
    /\ filename_to_write_stdout = TargetG
    /\ filename_to_write_stderr = ""

\* C7, as claimed: after the router has run, for each stream: with a target
\* recorded, the target file's content is exactly the stream's content and
\* none of it is on the shell's own stream; with none, the content is on the
\* shell's stream.
StreamRoutedAsClaimed(filename, content, stream) ==
    IF filename # ""
    THEN /\ TargetPath(filename) \in DOMAIN files
         /\ files[TargetPath(filename)] = content
         /\ content # << >> => NotWritten(stream, content)
    ELSE content # << >> => LastWrite(stream, content)

C7_EachStreamInItsTarget ==
    Routed =>
        /\ StreamRoutedAsClaimed(filename_to_write_stdout, stdout_output, shell_stdout)
        /\ StreamRoutedAsClaimed(filename_to_write_stderr, stderr_output, shell_stderr)

\* C7, amended: after the router has run, a stream with non-empty content and
\* a recorded target is not on the shell's own stream and its target file
\* holds exactly its content, except that stdout's file holds the stderr
\* content when stderr is non-empty and has the same target; non-empty
\* content without a target is the last write to the shell's stream; empty
\* content is written nowhere.
C7_NonEmptyStreamInItsTarget ==
    Routed =>
        /\ stderr_output # << >> =>
             IF filename_to_write_stderr # ""
             THEN /\ TargetPath(filename_to_write_stderr) \in DOMAIN files
                  /\ files[TargetPath(filename_to_write_stderr)] = stderr_output
                  /\ NotWritten(shell_stderr, stderr_output)
             ELSE LastWrite(shell_stderr, stderr_output)
        /\ stdout_output # << >> =>
             IF filename_to_write_stdout # ""
             THEN /\ TargetPath(filename_to_write_stdout) \in DOMAIN files
                  /\ files[TargetPath(filename_to_write_stdout)] =
                       IF /\ filename_to_write_stderr = filename_to_write_stdout
                          /\ stderr_output # << >>
                       THEN stderr_output ELSE stdout_output
                  /\ shell_stdout = << Prompt >>
             ELSE shell_stdout = << Prompt, stdout_output >>
        /\ stdout_output = << >> => shell_stdout = << Prompt >>
        /\ stderr_output = << >> =>
             \A k \in 1..Len(shell_stderr) : shell_stderr[k] = ArityMessage(command)

C7_Witness ==
    /\ Routed
    /\ command = "prog"
    /\ filename_to_write_stdout = TargetF
    /\ filename_to_write_stderr = TargetF
    /\ stdout_output # << >>
    /\ stderr_output # << >>
    /\ files[TargetF] = stderr_output

\* C8: a dispatch does exactly one of: run a built-in handler, spawn the
\* resolved executable, report `<name>: command not found`.  A built-in name
\* runs its handler and spawns nothing, whatever PATH holds; a name that does
\* not resolve spawns nothing.
C8_ExactlyOneOutcome ==
    Dispatched =>
        /\ CountInvoked("builtin") + CountInvoked("spawn")
             + (IF stderr_output = NotFoundMessage THEN 1 ELSE 0) = 1
        /\ command \in builtins =>
             invoked = << Invocation("builtin", << command >>, arguments) >>
        /\ command \notin builtins /\ Resolved =>
             invoked = << Invocation("spawn", ResolvedPath, arguments) >>
        /\ command \notin builtins /\ ~Resolved =>
             invoked = << >> /\ stderr_output = NotFoundMessage

\* C9, as claimed: `exit` ends the process with status 0 and `exit n` with
\* status n.
C9_ExitStatusIsArgument ==
    pc = "exited" =>
        /\ arguments = << >> => exit_status = 0
        /\ Len(arguments) = 1 /\ arguments[1] \in Numerals =>
             exit_status = NumeralValue(arguments[1])

\* C9, amended: `exit` ends the process with status 0 and `exit n` with
\* status n modulo 256, which is n for n up to 255, for n below 2^63, and
\* with status 255 for n = 2^63.
C9_ExitStatusIsArgumentMod256 ==
    pc = "exited" =>
        /\ arguments = << >> => exit_status = 0
        /\ Len(arguments) = 1 /\ arguments[1] \in Numerals =>
             /\ exit_status = NumeralValue(arguments[1]) % 256
             /\ NumeralValue(arguments[1]) <= 255 =>
                  exit_status = NumeralValue(arguments[1])
        /\ arguments = << "9223372036854775808" >> => exit_status = 255

C9_Witness ==
    /\ pc = "exited"
    /\ arguments = << "256" >>
    /\ exit_status = 0

\* C10: a built-in called with an argument count it rejects writes
\* `<name>: invalid number of arguments` to the shell's standard error and
\* does nothing else: the working directory and the files are unchanged, no
\* output is produced, the process goes on, and the router that follows
\* writes nothing before the shell prompts again.
C10_ArityErrorDoesNothingElse ==
    [][ /\ (pc = "dispatch" /\ ShellStep /\ ArityRejected) =>
             /\ pc' = "route"
             /\ shell_stderr' = Append(shell_stderr,
                    << command, ": invalid number of arguments\n" >>)
             /\ shell_stdout' = shell_stdout
             /\ stdout_output' = << >>
             /\ stderr_output' = << >>
             /\ cwd' = cwd
             /\ files' = files
             /\ exit_status' = NoStatus
             /\ raised' = ""
             /\ CountInvoked("spawn")' = 0
        /\ (pc = "route" /\ ShellStep /\ ArityRejected) =>
             /\ pc' = "prompt"
             /\ UNCHANGED << shell_stdout, shell_stderr, cwd, files >>
      ]_vars

C10_Witness ==
    /\ pc = "route"
    /\ command = "cd"
    /\ arguments = << >>
    /\ cwd = "/srv"
    /\ shell_stderr = << << "cd", ": invalid number of arguments\n" >> >>

(***************************************************************************)
(* C11.  cd and pwd.                                                       *)
(***************************************************************************)
\* the path the single argument of cd names: the argument with the home
\* directory for every tilde
CdPath ==
    IF ContainsTilde(arguments[1]) THEN ReplaceTilde(arguments[1], HOME)
    ELSE arguments[1]

\* what the path names, looked up from the working directory
CdKind == Kind(RegularPaths(path_files, files), JoinPath(cwd, CdPath))

\* the path is nonexistent: it names nothing in the file system
NoSuchPath == CdPath = "" \/ CdKind = "none"

\* C11: a cd with one argument naming a nonexistent path puts
\* `cd: <path>: No such file or directory` in the standard error content,
\* keeps the working directory and goes on to routing; a cd to an existing
\* directory makes it the working directory; pwd reports the working
\* directory, and no step other than a cd changes it, so that the pwd after a
\* failed cd reports what the pwd before it reported and the pwd after a
\* successful cd reports the new directory.
C11_CdKeepsOrChangesDirectory ==
    [][ /\ (pc = "dispatch" /\ ShellStep /\ command = "cd"
                /\ Len(arguments) = 1) =>
             /\ NoSuchPath =>
                  /\ cwd' = cwd
                  /\ stderr_output' =
                       << "cd: ", CdPath, ": No such file or directory\n" >>
                  /\ stdout_output' = << >>
                  /\ raised' = ""
                  /\ pc' = "route"
             /\ (~NoSuchPath /\ CdKind = "dir") =>
                  /\ cwd' = JoinPath(cwd, CdPath)
                  /\ stderr_output' = << >>
                  /\ pc' = "route"
        /\ (pc = "dispatch" /\ ShellStep /\ command = "pwd") =>
             /\ stdout_output' = << cwd, "\n" >>
             /\ cwd' = cwd
             /\ pc' = "route"
        /\ (pc # "dispatch" \/ command # "cd") => cwd' = cwd
      ]_vars

(***************************************************************************)
(* C12.  A line of blanks.                                                 *)
(***************************************************************************)
\* C12: once a non-empty line made only of blanks has been read, the shell
\* is back at its prompt or reading again with no exception raised, nothing
\* has been dispatched for the line and no file has been touched.
C12_BlankLineIsNothingToExecute ==
    line = BlankLine =>
        /\ pc \in { "prompt", "read" }
        /\ raised = ""
        /\ exit_status = NoStatus

(***************************************************************************)
(* C13.  Executable resolution.                                            *)
(***************************************************************************)
\* the file name the last dispatch resolved
LookedUp == IF command = "type" THEN arguments[1] ELSE command

\* the path of the file in the first directory of PATH among holders, as
\* a text
FirstInPath(holders, name) ==
    << PATH[CHOOSE i \in holders : \A j \in holders : i <= j] \o "/" \o name >>

\* the resolution the claim describes, for the directories as they were at
\* the k-th os.path.isfile call
ResolvedAsAt(k) ==
    LET holders == lookups[k].holders
    IN IF holders = {} THEN ~Resolved
       ELSE Resolved /\ ResolvedPath = FirstInPath(holders, LookedUp)

\* what the shell does with the result of the resolution
ResolutionShown ==
    /\ command \notin builtins =>
          IF Resolved
          THEN invoked = << Invocation("spawn", ResolvedPath, arguments) >>
          ELSE /\ invoked = << >>
               /\ stdout_output = << >>
               /\ stderr_output = << command, ": command not found\n" >>
    /\ (pc = "route" /\ command = "type") =>
          IF Resolved
          THEN /\ stdout_output = << LookedUp, " is " >> \o ResolvedPath
                                    \o << "\n" >>
               /\ stderr_output = << >>
          ELSE /\ stdout_output = << >>
               /\ stderr_output = << LookedUp, ": not found\n" >>

\* C13: a command that has resolved a name got the path in the first
\* directory of PATH, in order, that contains the file, or not found when no
\* directory contains it, for the directories as they were at some moment of
\* that command; an external command and `type <name>` for a name that is
\* no built-in resolve anew every time.
C13_ResolutionIsFirstInPath ==
    Dispatched =>
        /\ (command \notin builtins
               \/ (pc = "route" /\ command = "type" /\ Len(arguments) = 1
                      /\ arguments[1] \notin builtins)) => Len(lookups) > 0
        /\ Len(lookups) > 0 =>
              /\ \E k \in 1..Len(lookups) : ResolvedAsAt(k)
              /\ ResolutionShown

(***************************************************************************)
(* C14.  Diagnostics of a built-in under `2>`.                             *)
(***************************************************************************)
\* C14: after routing for a built-in read with a `2>` target, nothing has
\* been written to the shell's own standard error, and the diagnostic the
\* built-in emitted (the invalid-number-of-arguments message, type's not
\* found, cd's No such file or directory) is the content of the target file.
C14_BuiltinDiagnosticsInTarget ==
    (Routed /\ line # EmptyLine /\ command \in builtins
        /\ filename_to_write_stderr # "") =>
        /\ shell_stderr = << >>
        /\ ArityRejected =>
              /\ TargetPath(filename_to_write_stderr) \in DOMAIN files
              /\ files[TargetPath(filename_to_write_stderr)] = ArityMessage(command)
        /\ stderr_output # << >> =>
              /\ TargetPath(filename_to_write_stderr) \in DOMAIN files
              /\ files[TargetPath(filename_to_write_stderr)] = stderr_output

(***************************************************************************)
(* C15.  Nothing of an earlier line reaches the routing of this one.       *)
(***************************************************************************)
\* what _write_output adds to a stream of the shell for a content
WrittenText(content) == IF content = << >> THEN << >> ELSE << content >>

\* C15: for a non-empty line, (a) the dispatch leaves in the two buffers
\* only what this command produced: nothing where the command produces
\* nothing, the joined arguments for echo, the working directory for pwd,
\* and for an external program what the child wrote, or the shell's
\* message about this command; (b) at routing the two
\* targets are the operands of the last operators of this line, "" without
\* one; (c) routing changes no file but a target named on this line, and
\* gives it one of the two contents; (d) a line without redirection
\* operators changes no file and writes both contents to the shell's own
\* streams.
C15_OnlyThisLineIsRouted ==
    [][ /\ (pc = "dispatch" /\ ShellStep /\ line # EmptyLine) =>
             /\ (command = "cd" \/ ArityRejected
                     \/ (command \notin builtins /\ ~Resolved')) =>
                   stdout_output' = << >>
             /\ (command \in { "echo", "pwd" } \/ ArityRejected) =>
                   stderr_output' = << >>
             /\ command = "echo" =>
                   stdout_output' = JoinWith(arguments, " ") \o << "\n" >>
             /\ command = "pwd" => stdout_output' = << cwd, "\n" >>
             /\ (command \notin builtins /\ Resolved') =>
                   stdout_output' = << >> /\ stderr_output' = << >>
        /\ (pc = "wait" /\ ShellStep) =>
             \/ /\ stdout_output' \in ChildStdout
                /\ stderr_output' \in ChildStderr
             \/ /\ stdout_output' = << >>
                /\ stderr_output' = NotFoundMessage
        /\ (pc = "route" /\ ShellStep /\ line # EmptyLine) =>
             /\ filename_to_write_stdout =
                  LastOperand(RawArguments, { ">", "1>" })
             /\ filename_to_write_stderr = LastOperand(RawArguments, { "2>" })
             /\ \A f \in DOMAIN files' :
                  (f \notin DOMAIN files \/ files'[f] # files[f]) =>
                      /\ \E t \in NamedTargets(RawArguments) : f = TargetPath(t)
                      /\ files'[f] \in { stdout_output, stderr_output }
             /\ NamedTargets(RawArguments) = {} =>
                  /\ files' = files
                  /\ shell_stdout' = shell_stdout \o WrittenText(stdout_output)
                  /\ shell_stderr' = shell_stderr \o WrittenText(stderr_output)
      ]_vars

\* `echo a b > /tmp/f`, then `pwd`: the directory is on the shell's stdout
\* and /tmp/f holds what echo wrote
C15_Witness ==
    /\ Routed
    /\ line = LineOf(<< "pwd" >>)
    /\ filename_to_write_stdout = ""
    /\ TargetF \in DOMAIN files
    /\ files[TargetF] = << "a", " ", "b", "\n" >>
    /\ shell_stdout = << Prompt, << HOME, "\n" >> >>

(***************************************************************************)
(* C16.  type against the dispatcher.                                      *)
(***************************************************************************)
\* what _handle does with the name as a command, in this state: the test of
\* line 36, then the dispatcher
DispatchOf(name) ==
    IF AfterRead(name) = "dispatch"
    THEN HandleCommands(name, << >>, Started, Steady(path_files), files, TRUE,
                        << >>, << >>, "ok")
    ELSE Started

\* what `type <name>` answers, in this state
TypeOf(name) ==
    BuiltinType(<< name >>, Steady(path_files), files, Started)

\* the directories of PATH are, for this name, as every os.path.isfile call
\* of the last dispatch found them
SeenIsNow(name) ==
    \A j \in 1..Len(lookups) :
        lookups[j].holders
          = { i \in 1..Len(PATH) : InDirectory(path_files, PATH[i], name) }

\* the paths a resolution of the name can give
PathsOf(name) == { << JoinPath(PATH[k], name) >> : k \in 1..Len(PATH) }

IsBuiltinAnswer(name, out) == out = << name, " is a shell builtin\n" >>
IsPathAnswer(name, path, out) == out = << name, " is " >> \o path \o << "\n" >>
IsNotFoundAnswer(name, err) == err = << name, ": not found\n" >>

\* the answer a dispatched `type <name>` has given, against what the shell
\* does with the name as a command in the same state
TypeAnswerAgrees ==
    LET name == arguments[1]
        d == DispatchOf(name)
    IN /\ IsBuiltinAnswer(name, stdout_output)
             <=> (Len(d.invoked) = 1 /\ d.invoked[1].kind = "builtin")
       /\ \A path \in PathsOf(name) :
             IsPathAnswer(name, path, stdout_output)
             <=> d.invoked = << Invocation("spawn", path, << >>) >>
       /\ IsNotFoundAnswer(name, stderr_output)
             <=> d.err = << name, ": command not found\n" >>

\* what the dispatcher has done with the command, against the answer type
\* gives for its name in the same state
DispatchAgreesWithType ==
    LET t == TypeOf(command)
    IN /\ (Len(invoked) = 1 /\ invoked[1].kind = "builtin")
             <=> IsBuiltinAnswer(command, t.out)
       /\ \A path \in PathsOf(command) :
             invoked = << Invocation("spawn", path, arguments) >>
             <=> IsPathAnswer(command, path, t.out)
       /\ stderr_output = NotFoundMessage
             <=> IsNotFoundAnswer(command, t.err)

\* C16: for every name and every state of the directories of PATH (the one
\* the resolution found, still there), `type <name>` answers `<name> is a
\* shell builtin` iff the shell runs a built-in handler for the name as a
\* command, `<name> is <path>` iff it spawns exactly that path, and
\* `<name>: not found` on standard error iff it emits `<name>: command not
\* found`.
C16_TypeAgreesWithDispatcher ==
    /\ (pc = "route" /\ command = "type" /\ Len(arguments) = 1
            /\ SeenIsNow(arguments[1])) => TypeAnswerAgrees
    /\ (Dispatched /\ SeenIsNow(command)) => DispatchAgreesWithType

C18_LoopEndsOnlyOnExit ==
    command # "exit" => pc \notin { "exited", "crashed" }

====
